---- MODULE Spec2Model ----
(***************************************************************************)
(* Model of the hello-world client: the configuration resolver (utils),    *)
(* the payer/funding step, the program check and greeted-account           *)
(* provisioning, the invoke and the report, run in order by main().        *)
(* Every awaited network call is a step of its own: it may reject, and     *)
(* another client holding the configured keypair may act between two of    *)
(* them.  The network is the RPC boundary: a table of accounts, a faucet,  *)
(* fee parameters.  Several runs of the process act on the same network,   *)
(* and so do other instances of the client started with the same keypair.  *)
(***************************************************************************)
EXTENDS Integers, Sequences, FiniteSets, TLC

\* ---------------------------------------------------------------- bounds
\* Number of process runs against the same network.
MaxRuns == 2
\* Per-signature fee the network quotes.
MaxLamportsPerSignature == 2
\* Per-byte rent-exemption rate the network quotes.
MaxRentPerByte == 1
\* Number of operations of other instances of the client on the same network.
MaxOtherOps == 1

\* ---------------------------------------------------------------- values
NULL == [kind |-> "null"]

\* Strings are sequences of UTF-16 code units, as in JavaScript.
Hello1234567 == <<72, 101, 108, 108, 111, 49, 50, 51, 52, 53, 54, 55>>
sampleTxt == <<48, 48, 48, 48, 48, 48, 48, 48, 48, 48, 48, 48>>
MsgShort == <<72, 101, 108, 108, 111>>
\* 12 characters, one of them two bytes wide in UTF-8 (e-acute): 13 bytes.
MsgAccent12 == <<72, 233, 108, 108, 111, 49, 50, 51, 52, 53, 54, 55>>
\* U+FEFF (three bytes in UTF-8) and 9 digits: 12 bytes.
MsgBom == <<65279, 49, 50, 51, 52, 53, 54, 55, 56, 57>>
Msgs == {Hello1234567, MsgShort, MsgAccent12, MsgBom}

\* ---------------------------------------------------------------- borsh
\* BinaryWriter.writeU32: four bytes, little endian.
U32LE(n) == <<n % 256, (n \div 256) % 256, (n \div 65536) % 256, (n \div 16777216) % 256>>

ReadU32(buf) == buf[1] + 256 * buf[2] + 65536 * buf[3] + 16777216 * buf[4]

IsHighSurrogate(u) == u >= 55296 /\ u <= 56319
IsLowSurrogate(u) == u >= 56320 /\ u <= 57343

\* Buffer.from(str, 'utf8') for one code point; a surrogate on its own is
\* written as U+FFFD.
Utf8CharAscii(cp) == <<cp % 256>>
Utf8Char(cp) ==
    IF cp < 128 THEN <<cp>>
    ELSE IF cp < 2048 THEN <<192 + (cp \div 64), 128 + (cp % 64)>>
    ELSE IF IsHighSurrogate(cp) \/ IsLowSurrogate(cp) THEN <<239, 191, 189>>
    ELSE IF cp < 65536
    THEN <<224 + (cp \div 4096), 128 + ((cp \div 64) % 64), 128 + (cp % 64)>>
    ELSE <<240 + (cp \div 262144), 128 + ((cp \div 4096) % 64),
           128 + ((cp \div 64) % 64), 128 + (cp % 64)>>

\* Buffer.from(str, 'utf8'): a high surrogate followed by a low one is one
\* code point.
RECURSIVE Utf8Encode(_)
Utf8Encode(str) ==
    IF str = <<>> THEN <<>>
    ELSE IF Len(str) >= 2 /\ IsHighSurrogate(str[1]) /\ IsLowSurrogate(str[2])
    THEN Utf8Char(65536 + (str[1] - 55296) * 1024 + (str[2] - 56320))
         \o Utf8Encode(SubSeq(str, 3, Len(str)))
    ELSE Utf8Char(Head(str)) \o Utf8Encode(Tail(str))

\* The UTF-8 decoder with fatal errors, after any byte order mark.
RECURSIVE Utf8DecodeBody(_)
Utf8DecodeBody(b) ==
    IF b = <<>> THEN [ok |-> TRUE, str |-> <<>>]
    ELSE
      LET b1 == b[1]
          n == IF b1 < 128 THEN 1
               ELSE IF b1 >= 194 /\ b1 < 224 THEN 2
               ELSE IF b1 >= 224 /\ b1 < 240 THEN 3
               ELSE IF b1 >= 240 /\ b1 < 245 THEN 4
               ELSE 0
          \* bounds of the second byte
          lo == IF b1 = 224 THEN 160 ELSE IF b1 = 240 THEN 144 ELSE 128
          hi == IF b1 = 237 THEN 159 ELSE IF b1 = 244 THEN 143 ELSE 191
          wellFormed == /\ n > 0
                        /\ Len(b) >= n
                        /\ (n >= 2 => b[2] >= lo /\ b[2] <= hi)
                        /\ \A i \in 3..n : b[i] >= 128 /\ b[i] <= 191
          cp == IF n = 1 THEN b1
                ELSE IF n = 2 THEN (b1 - 192) * 64 + (b[2] - 128)
                ELSE IF n = 3 THEN (b1 - 224) * 4096 + (b[2] - 128) * 64 + (b[3] - 128)
                ELSE (b1 - 240) * 262144 + (b[2] - 128) * 4096 + (b[3] - 128) * 64
                     + (b[4] - 128)
          units == IF cp < 65536 THEN <<cp>>
                   ELSE <<55296 + ((cp - 65536) \div 1024), 56320 + ((cp - 65536) % 1024)>>
      IN IF ~wellFormed THEN [ok |-> FALSE, str |-> <<>>]
         ELSE LET rest == Utf8DecodeBody(SubSeq(b, n + 1, Len(b)))
              IN IF rest.ok THEN [ok |-> TRUE, str |-> units \o rest.str]
                 ELSE rest

\* TextDecoder('utf-8', {fatal: true}).decode: a leading byte order mark is
\* dropped (ignoreBOM is false), ill-formed input is an error.
Utf8Decode(b) ==
    IF Len(b) >= 3 /\ SubSeq(b, 1, 3) = <<239, 187, 191>>
    THEN Utf8DecodeBody(SubSeq(b, 4, Len(b)))
    ELSE Utf8DecodeBody(b)

\* borsh.serialize(GreetingSchema, account): the one String field, as a u32
\* byte count followed by the UTF-8 bytes.
Serialize(txt) == U32LE(Len(Utf8Encode(txt))) \o Utf8Encode(txt)

\* borsh.deserialize(GreetingSchema, GreetingAccount, data): the record, or a
\* BorshError (short buffer, invalid text, bytes left over).
DeserializeLenient(buf) ==
    IF Len(buf) < 4 THEN [ok |-> FALSE, txt |-> <<>>]
    ELSE LET len == IF 4 + ReadU32(buf) > Len(buf) THEN Len(buf) - 4 ELSE ReadU32(buf)
             d == Utf8Decode(SubSeq(buf, 5, 4 + len))
         IN [ok |-> d.ok, txt |-> d.str]
Deserialize(buf) ==
    IF Len(buf) < 4 THEN [ok |-> FALSE, txt |-> <<>>]
    ELSE LET len == ReadU32(buf)
         IN IF 4 + len > Len(buf) THEN [ok |-> FALSE, txt |-> <<>>]
            ELSE LET d == Utf8Decode(SubSeq(buf, 5, 4 + len))
                 IN IF ~d.ok THEN [ok |-> FALSE, txt |-> <<>>]
                    ELSE IF 4 + len < Len(buf) THEN [ok |-> FALSE, txt |-> <<>>]
                    ELSE [ok |-> TRUE, txt |-> d.str]

GREETING_SIZE == Len(Serialize(sampleTxt))

\* ---------------------------------------------------------------- state
VARIABLES
    \* the local machine: CLI config file, program artifacts
    cfg, progKeypairFile, soExists,
    \* the network: fee parameters, accounts, identities generated so far
    lamportsPerSignature, rentPerByte, accounts, nextFresh,
    \* the process: module-scoped state of hello_world.ts, main's position,
    \* and the locals that live across an await
    run, pc, msg, rpcUrl, payerAccount, programId, greetedPubkey, error, exitCode, reported,
    fees, observed, account, feeCalculator, lamports,
    \* what this run did (history)
    steps, airdrops, txs, payerSource, getPayerRaised, greetedSeen, debited,
    \* greeted-account creations over all runs (history)
    createLog,
    \* other instances: operations so far, whether one has written the
    \* greeted account since this run's invoke (history), and the balance one
    \* of them has read and found short (-1: none pending)
    otherOps, otherWrote, otherLamports

envVars == <<cfg, progKeypairFile, soExists, lamportsPerSignature, rentPerByte>>
netVars == <<accounts, nextFresh, createLog, otherOps, otherLamports>>
procVars == <<run, pc, msg, rpcUrl, payerAccount, programId, greetedPubkey, error, exitCode,
              reported, fees, observed, account, feeCalculator, lamports>>
histVars == <<steps, airdrops, txs, payerSource, getPayerRaised, greetedSeen, debited,
              otherWrote>>
vars == <<envVars, netVars, procVars, histVars>>

\* ---------------------------------------------------------------- addresses
CfgKey == <<"cfg", 0>>
ProgramKey == <<"program", 0>>
SystemProgram == <<"system", 0>>
FreshKey(k) == <<"new", k>>
GREETING_SEED == "hello"

\* PublicKey.createWithSeed: a function of its three inputs and nothing else.
CreateWithSeed(base, seed, prog) == <<"derived", base, seed, prog>>

PayerKeys == {CfgKey} \cup {FreshKey(k) : k \in 1..MaxRuns}
Addrs == PayerKeys \cup {ProgramKey}
         \cup {CreateWithSeed(p, GREETING_SEED, ProgramKey) : p \in PayerKeys}

\* ---------------------------------------------------------------- network
\* connection.getMinimumBalanceForRentExemption(size)
Rent(size) == rentPerByte * size

\* connection.getBalance(address)
GetBalance(accts, a) == IF accts[a] = NULL THEN 0 ELSE accts[a].lamports

\* The faucet's transfer, once requestAirdrop has resolved.
Credit(accts, a, amount) ==
    IF accts[a] = NULL
    THEN [accts EXCEPT ![a] = [lamports |-> amount, data |-> <<>>,
                               owner |-> SystemProgram, executable |-> FALSE]]
    ELSE [accts EXCEPT ![a].lamports = @ + amount]

Zeros(n) == [i \in 1..n |-> 0]

\* A transaction signed by the payer alone costs one signature.
TxFee == lamportsPerSignature

\* SystemProgram.createAccountWithSeed as the network executes it: the fee,
\* then the address must be unused, then the transfer.
SubmitCreate(accts, payer, newAddr, amount, space, owner) ==
    IF GetBalance(accts, payer) < TxFee THEN [ok |-> FALSE, why |-> "funds", accts |-> accts]
    ELSE IF accts[newAddr] # NULL THEN [ok |-> FALSE, why |-> "inUse", accts |-> accts]
    ELSE IF GetBalance(accts, payer) < amount + TxFee
    THEN [ok |-> FALSE, why |-> "funds", accts |-> accts]
    ELSE [ok |-> TRUE, why |-> "",
          accts |-> [accts EXCEPT ![payer].lamports = @ - (amount + TxFee),
                                  ![newAddr] = [lamports |-> amount, data |-> Zeros(space),
                                                owner |-> owner, executable |-> FALSE]]]

\* What the on-chain program may do with instruction data longer than the
\* account's storage: nothing fixes it, so either the instruction is rejected
\* or the part that fits is written.
OverflowPolicies == {"reject", "truncate"}

\* The on-chain program: the instruction data is copied over the start of the
\* account's storage, which keeps its size.
ProcessInstruction(data, instr, overflow) ==
    IF Len(instr) <= Len(data)
    THEN [ok |-> TRUE, data |-> instr \o SubSeq(data, Len(instr) + 1, Len(data))]
    ELSE IF overflow = "truncate" THEN [ok |-> TRUE, data |-> SubSeq(instr, 1, Len(data))]
    ELSE [ok |-> FALSE, data |-> data]

\* The invoke transaction as the network executes it.
SubmitInvoke(accts, payer, target, instr, overflow) ==
    IF GetBalance(accts, payer) < TxFee THEN [ok |-> FALSE, why |-> "funds", accts |-> accts]
    ELSE IF accts[target] = NULL THEN [ok |-> FALSE, why |-> "program", accts |-> accts]
    ELSE LET r == ProcessInstruction(accts[target].data, instr, overflow)
         IN IF ~r.ok THEN [ok |-> FALSE, why |-> "program", accts |-> accts]
            ELSE [ok |-> TRUE, why |-> "",
                  accts |-> [accts EXCEPT ![payer].lamports = @ - TxFee,
                                          ![target].data = r.data]]

\* sendAndConfirmTransaction: the request may be rejected before the
\* transaction reaches the network, or the confirmation may be rejected after
\* it has been executed.
SendOutcomes == {"ok", "sendRejected", "confirmRejected"}

\* ---------------------------------------------------------------- text and paths
\* A message is a sequence of pieces: literal text, or one UTF-16 code unit
\* where the character cannot be written inside a string of this language.
Txt(s) == [txt |-> s]
Chr(c) == [chr |-> c]
Backquote == Chr(96)
NoError == <<>>

\* A path is the sequence of its segments below the root.
\* __dirname of the compiled client, for two places the repository may be
\* checked out at.
InstallDirs ==
    {<<"home", "user", "solana-rust-helloworld", "src", "client">>,
     <<"srv", "helloworld", "src", "client">>}

\* keypair_path of the CLI config file.
ConfiguredKeypairPath == <<"home", "user", ".config", "solana", "id.json">>

\* path.resolve(base, rel) for an absolute base.
RECURSIVE PathResolve(_, _)
PathResolve(base, rel) ==
    IF rel = <<>> THEN base
    ELSE IF Head(rel) = ".."
    THEN PathResolve(IF base = <<>> THEN base ELSE SubSeq(base, 1, Len(base) - 1), Tail(rel))
    ELSE PathResolve(Append(base, Head(rel)), Tail(rel))

\* path.join(base, name)
PathJoin(base, name) == Append(base, name)

\* The path as it is printed.
RECURSIVE PathText(_)
PathText(path) ==
    IF path = <<>> THEN <<>>
    ELSE <<Txt("/"), Txt(Head(path))>> \o PathText(Tail(path))

PROGRAM_PATH(dirname) == PathResolve(dirname, <<"..", "..", "dist", "program">>)
PROGRAM_KEYPAIR_PATH(dirname) == PathJoin(PROGRAM_PATH(dirname), "helloworld-keypair.json")

\* ---------------------------------------------------------------- utils
DefaultUrl == "http://localhost:8899"
ConfiguredUrl == "json_rpc_url"

\* getConfig: reads and parses the CLI config file, or throws.
GetConfig ==
    [raised |-> cfg.state # "ok", json_rpc_url |-> cfg.hasUrl, keypair_path |-> cfg.hasKeypairPath]

\* fs.readFile on a path that names no file.
EnoentMessage(path) ==
    <<Txt("ENOENT: no such file or directory, open '")>> \o PathText(path) \o <<Txt("'")>>

\* A keypair file that is not JSON, and the token JSON.parse stops at.
CorruptSample == [content |-> "[2, oops", token |-> "o"]

\* JSON.parse on text that is not JSON.
JsonParseMessage(sample) ==
    <<Txt("Unexpected token '"), Txt(sample.token), Txt("', \""), Txt(sample.content),
      Txt("\" is not valid JSON")>>

\* readAccountFromFile: the identity in the file, or throws with the message
\* of fs.readFile or of JSON.parse.
ReadAccountFromFile(fileState, path, key) ==
    [raised |-> fileState # "valid", account |-> key,
     message |-> IF fileState = "missing" THEN EnoentMessage(path)
                 ELSE IF fileState = "corrupt" THEN JsonParseMessage(CorruptSample)
                 ELSE <<>>]

\* getRpcUrl: everything is inside the try block.
GetRpcUrl ==
    LET c == GetConfig
    IN IF c.raised \/ ~c.json_rpc_url THEN [raised |-> FALSE, value |-> DefaultUrl]
       ELSE [raised |-> FALSE, value |-> ConfiguredUrl]

\* getPayer: the promise of readAccountFromFile is returned without being
\* awaited, so its rejection is not caught by the try block.
GetPayer(fresh) ==
    LET c == GetConfig
    IN IF c.raised \/ ~c.keypair_path
       THEN [raised |-> FALSE, account |-> fresh, source |-> "fallback"]
       ELSE LET r == ReadAccountFromFile(cfg.keypairFile, ConfiguredKeypairPath, CfgKey)
            IN IF r.raised THEN [raised |-> TRUE, account |-> NULL, source |-> "none"]
               ELSE [raised |-> FALSE, account |-> r.account, source |-> "loaded"]

\* ---------------------------------------------------------------- errors
\* Errors raised by the libraries (RPC, transaction, borsh) are named here;
\* those raised by checkProgram carry the text the code builds.
ErrRpc == <<Txt("RPC request rejected")>>
ErrKeypair(path, errMsg) ==
    <<Txt("Failed to read program keypair at '")>> \o PathText(path)
    \o <<Txt("' due to error: ")>> \o errMsg
    \o <<Txt(". Program may need to be deployed with "), Backquote,
          Txt("solana program deploy dist/program/helloworld.so"), Backquote>>
ErrNeedsDeploy ==
    <<Txt("Program needs to be deployed with "), Backquote,
      Txt("solana program deploy dist/program/helloworld.so"), Backquote>>
ErrNeedsBuild == <<Txt("Program needs to be built and deployed")>>
ErrNotExecutable == <<Txt("Program is not executable")>>
ErrFunds == <<Txt("Transaction failed: insufficient funds")>>
ErrInUse == <<Txt("Transaction failed: account already in use")>>
ErrProgram == <<Txt("Transaction failed: program error")>>
ErrNoGreeted == <<Txt("Error: cannot find the greeted account")>>
ErrBorsh == <<Txt("BorshError")>>
TxError(why) ==
    IF why = "funds" THEN ErrFunds ELSE IF why = "inUse" THEN ErrInUse ELSE ErrProgram

\* ---------------------------------------------------------------- main
StepOrder == <<"establishConnection", "establishPayer", "checkProgram", "sayHello", "reportGreetings">>

\* main(): where control goes when a step returns or raises.
AfterStep(step, raised) ==
    IF raised THEN "rejected"
    ELSE IF step = "establishConnection" THEN "establishPayer"
    ELSE IF step = "establishPayer" THEN "checkProgram"
    ELSE IF step = "checkProgram" THEN "sayHello"
    ELSE IF step = "sayHello" THEN "reportGreetings"
    ELSE "resolved"

\* main().then(() => process.exit(), err => process.exit(-1))
ExitStatusAlwaysZero(rejected) == 0
ExitStatus(rejected) == IF rejected THEN (-1) % 256 ELSE 0

\* A step of main returns or raises.
Done(step, raised, err) ==
    /\ pc' = AfterStep(step, raised)
    /\ error' = err
    /\ steps' = Append(steps, [name |-> step, ok |-> ~raised])

\* An await inside a step resolves: control stays in the step.
Goto(label) ==
    /\ pc' = label
    /\ UNCHANGED <<error, steps>>

\* ---------------------------------------------------------------- hello_world
\* fees: rent-exemption minimum plus one hundred signatures.
FeeEstimateOneSignature(rent, lps) == rent + lps * 1
FeeEstimate(rent, lps) == rent + lps * 100

\* The amount asked of the faucet when the balance is short.
ShortfallWhole(f, balance) == f
Shortfall(f, balance) == f - balance

\* if (lamports < fees)
NeedsTopUpOrEqual(balance, f) == balance <= f
NeedsTopUp(balance, f) == balance < f

\* The creation instruction of checkProgram: funding and space.
CreateParams(funding, size) == [lamports |-> funding, space |-> size]

\* if (greetedAccount === null)
MustCreateAlways(info) == TRUE
MustCreate(info) == info = NULL

\* The checks on the program's on-chain record.
ProgramErrorNoExecCheck(info) ==
    IF info = NULL THEN (IF soExists THEN ErrNeedsDeploy ELSE ErrNeedsBuild) ELSE NoError
ProgramError(info) ==
    IF info = NULL THEN (IF soExists THEN ErrNeedsDeploy ELSE ErrNeedsBuild)
    ELSE IF ~info.executable THEN ErrNotExecutable
    ELSE NoError


\* main() has not settled yet.  What another instance does after that is seen
\* by this client only in its next run.
Running == pc \notin {"resolved", "rejected", "exited"}

\* Another instance of the client gets as far as this one can: its getPayer
\* loads the configured keypair, its checkProgram finds the program.
OtherClientHasPayer == ~GetPayer(CfgKey).raised /\ GetPayer(CfgKey).source = "loaded"
OtherClientHasProgram ==
    progKeypairFile = "valid" /\ ProgramError(accounts[ProgramKey]) = NoError

\* establishConnection, lines 123-124: getRpcUrl has read the config file; the
\* connection is made for the url it gave.
establishConnection ==
    /\ pc = "establishConnection"
    /\ rpcUrl' = GetRpcUrl.value
    /\ Goto("ec_getVersion")
    /\ UNCHANGED <<cfg, progKeypairFile, soExists, lamportsPerSignature, rentPerByte,
                   accounts, nextFresh, createLog, run, msg, payerAccount, programId,
                   greetedPubkey, exitCode, reported, fees, observed, account, feeCalculator,
                   lamports, airdrops, txs, payerSource, getPayerRaised, greetedSeen, debited,
                   otherOps, otherWrote, otherLamports>>

\* establishConnection, lines 125-126: getVersion.
ecGetVersion ==
    /\ pc = "ec_getVersion"
    /\ \E rpcOk \in BOOLEAN :
          Done("establishConnection", ~rpcOk, IF rpcOk THEN NoError ELSE ErrRpc)
    /\ UNCHANGED <<cfg, progKeypairFile, soExists, lamportsPerSignature, rentPerByte,
                   accounts, nextFresh, createLog, run, msg, rpcUrl, payerAccount, programId,
                   greetedPubkey, exitCode, reported, fees, observed, account, feeCalculator,
                   lamports, airdrops, txs, payerSource, getPayerRaised, greetedSeen, debited,
                   otherOps, otherWrote, otherLamports>>

\* establishPayer, lines 133-137: fees starts at zero; with no payer yet,
\* getRecentBlockhash gives the fee calculator.
establishPayer ==
    /\ pc = "establishPayer"
    /\ fees' = 0
    /\ IF payerAccount # NULL
       THEN feeCalculator' = feeCalculator /\ Goto("ep_getBalance")
       ELSE \E rpcOk \in BOOLEAN :
              IF rpcOk
              THEN /\ feeCalculator' = lamportsPerSignature
                   /\ Goto("ep_rent")
              ELSE /\ feeCalculator' = feeCalculator
                   /\ Done("establishPayer", TRUE, ErrRpc)
    /\ UNCHANGED <<cfg, progKeypairFile, soExists, lamportsPerSignature, rentPerByte,
                   accounts, nextFresh, createLog, run, msg, rpcUrl, payerAccount, programId,
                   greetedPubkey, exitCode, reported, observed, account, lamports, airdrops,
                   txs, payerSource, getPayerRaised, greetedSeen, debited, otherOps,
                   otherWrote, otherLamports>>

\* establishPayer, lines 145-153: getMinimumBalanceForRentExemption, then the
\* estimate from it and from the fee calculator read before.
epRent ==
    /\ pc = "ep_rent"
    /\ \E rpcOk \in BOOLEAN :
          IF rpcOk
          THEN /\ fees' = FeeEstimate(fees + Rent(GREETING_SIZE), feeCalculator)
               /\ Goto("ep_getPayer")
          ELSE /\ fees' = fees
               /\ Done("establishPayer", TRUE, ErrRpc)
    /\ UNCHANGED <<cfg, progKeypairFile, soExists, lamportsPerSignature, rentPerByte,
                   accounts, nextFresh, createLog, run, msg, rpcUrl, payerAccount, programId,
                   greetedPubkey, exitCode, reported, observed, account, feeCalculator,
                   lamports, airdrops, txs, payerSource, getPayerRaised, greetedSeen, debited,
                   otherOps, otherWrote, otherLamports>>

\* establishPayer, lines 155-156, and getPayer (utils:67-77): the config file
\* has been read; without a keypair_path in it (or without the file) getPayer
\* falls back to a new Account(), otherwise it goes on to the keypair file.
epGetPayer ==
    /\ pc = "ep_getPayer"
    /\ LET c == GetConfig
           fresh == FreshKey(nextFresh)
           gp == GetPayer(fresh)
       IN IF c.raised \/ ~c.keypair_path
          THEN /\ getPayerRaised' = gp.raised
               /\ nextFresh' = nextFresh + 1
               /\ payerAccount' = gp.account
               /\ payerSource' = gp.source
               /\ Goto("ep_getBalance")
          ELSE /\ UNCHANGED <<getPayerRaised, nextFresh, payerAccount, payerSource>>
               /\ Goto("ep_readKeypair")
    /\ UNCHANGED <<cfg, progKeypairFile, soExists, lamportsPerSignature, rentPerByte,
                   accounts, createLog, run, msg, rpcUrl, programId, greetedPubkey, exitCode,
                   reported, fees, observed, account, feeCalculator, lamports, airdrops, txs,
                   greetedSeen, debited, otherOps, otherWrote, otherLamports>>

\* getPayer (utils:78) and establishPayer, lines 156-163: the keypair file has
\* been read; the identity in it is the payer, or the rejection reaches the
\* catch block and the new Account() of newAccountWithLamports.
epReadKeypair ==
    /\ pc = "ep_readKeypair"
    /\ LET fresh == FreshKey(nextFresh)
           gp == GetPayer(fresh)
       IN /\ getPayerRaised' = gp.raised
          /\ IF gp.raised
             THEN /\ account' = fresh
                  /\ nextFresh' = nextFresh + 1
                  /\ UNCHANGED <<payerAccount, payerSource>>
                  /\ Goto("ep_newAirdrop")
             ELSE /\ payerAccount' = gp.account
                  /\ payerSource' = gp.source
                  /\ UNCHANGED <<account, nextFresh>>
                  /\ Goto("ep_getBalance")
    /\ UNCHANGED <<cfg, progKeypairFile, soExists, lamportsPerSignature, rentPerByte,
                   accounts, createLog, run, msg, rpcUrl, programId, greetedPubkey, exitCode,
                   reported, fees, observed, feeCalculator, lamports, airdrops, txs,
                   greetedSeen, debited, otherOps, otherWrote, otherLamports>>

\* newAccountWithLamports (utils:24-27): requestAirdrop(account, fees).
epNewAirdrop ==
    /\ pc = "ep_newAirdrop"
    /\ \E rpcOk \in BOOLEAN :
          /\ airdrops' = Append(airdrops, [to |-> account, amount |-> fees, ok |-> rpcOk])
          /\ IF rpcOk
             THEN accounts' = Credit(accounts, account, fees) /\ Goto("ep_newConfirm")
             ELSE accounts' = accounts /\ Done("establishPayer", TRUE, ErrRpc)
    /\ UNCHANGED <<cfg, progKeypairFile, soExists, lamportsPerSignature, rentPerByte,
                   nextFresh, createLog, run, msg, rpcUrl, payerAccount, programId,
                   greetedPubkey, exitCode, reported, fees, observed, account, feeCalculator,
                   lamports, txs, payerSource, getPayerRaised, greetedSeen, debited, otherOps,
                   otherWrote, otherLamports>>

\* newAccountWithLamports (utils:28-29): confirmTransaction, then the return.
epNewConfirm ==
    /\ pc = "ep_newConfirm"
    /\ \E rpcOk \in BOOLEAN :
          IF rpcOk
          THEN /\ payerAccount' = account
               /\ payerSource' = "newAccountWithLamports"
               /\ Goto("ep_getBalance")
          ELSE /\ UNCHANGED <<payerAccount, payerSource>>
               /\ Done("establishPayer", TRUE, ErrRpc)
    /\ UNCHANGED <<cfg, progKeypairFile, soExists, lamportsPerSignature, rentPerByte,
                   accounts, nextFresh, createLog, run, msg, rpcUrl, programId, greetedPubkey,
                   exitCode, reported, fees, observed, account, feeCalculator, lamports,
                   airdrops, txs, getPayerRaised, greetedSeen, debited, otherOps, otherWrote,
                   otherLamports>>

\* establishPayer, lines 167-168: getBalance and the comparison with fees.
epGetBalance ==
    /\ pc = "ep_getBalance"
    /\ \E rpcOk \in BOOLEAN :
          IF rpcOk
          THEN LET balance == GetBalance(accounts, payerAccount)
               IN /\ observed' = balance
                  /\ debited' = FALSE
                  /\ IF NeedsTopUp(balance, fees)
                     THEN Goto("ep_topUpAirdrop")
                     ELSE Done("establishPayer", FALSE, NoError)
          ELSE /\ UNCHANGED <<observed, debited>>
               /\ Done("establishPayer", TRUE, ErrRpc)
    /\ UNCHANGED <<cfg, progKeypairFile, soExists, lamportsPerSignature, rentPerByte,
                   accounts, nextFresh, createLog, run, msg, rpcUrl, payerAccount, programId,
                   greetedPubkey, exitCode, reported, fees, account, feeCalculator, lamports,
                   airdrops, txs, payerSource, getPayerRaised, greetedSeen, otherOps,
                   otherWrote, otherLamports>>

\* establishPayer, lines 170-173: requestAirdrop(payer, fees - lamports).
epTopUpAirdrop ==
    /\ pc = "ep_topUpAirdrop"
    /\ \E rpcOk \in BOOLEAN :
          LET amount == Shortfall(fees, observed)
          IN /\ airdrops' = Append(airdrops, [to |-> payerAccount, amount |-> amount,
                                              ok |-> rpcOk])
             /\ IF rpcOk
                THEN accounts' = Credit(accounts, payerAccount, amount)
                     /\ Goto("ep_topUpConfirm")
                ELSE accounts' = accounts /\ Done("establishPayer", TRUE, ErrRpc)
    /\ UNCHANGED <<cfg, progKeypairFile, soExists, lamportsPerSignature, rentPerByte,
                   nextFresh, createLog, run, msg, rpcUrl, payerAccount, programId,
                   greetedPubkey, exitCode, reported, fees, observed, account, feeCalculator,
                   lamports, txs, payerSource, getPayerRaised, greetedSeen, debited, otherOps,
                   otherWrote, otherLamports>>

\* establishPayer, line 174 to the end: confirmTransaction.
epTopUpConfirm ==
    /\ pc = "ep_topUpConfirm"
    /\ \E rpcOk \in BOOLEAN :
          Done("establishPayer", ~rpcOk, IF rpcOk THEN NoError ELSE ErrRpc)
    /\ UNCHANGED <<cfg, progKeypairFile, soExists, lamportsPerSignature, rentPerByte,
                   accounts, nextFresh, createLog, run, msg, rpcUrl, payerAccount, programId,
                   greetedPubkey, exitCode, reported, fees, observed, account, feeCalculator,
                   lamports, airdrops, txs, payerSource, getPayerRaised, greetedSeen, debited,
                   otherOps, otherWrote, otherLamports>>

\* checkProgram, lines 191-199: the program id from its keypair file, whose
\* path is under the directory the client was started from (that directory is
\* read nowhere else).
checkProgram ==
    /\ pc = "checkProgram"
    /\ \E dirname \in InstallDirs :
          LET path == PROGRAM_KEYPAIR_PATH(dirname)
              rd == ReadAccountFromFile(progKeypairFile, path, ProgramKey)
          IN IF rd.raised
             THEN /\ programId' = programId
                  /\ Done("checkProgram", TRUE, ErrKeypair(path, rd.message))
             ELSE programId' = rd.account /\ Goto("cp_programInfo")
    /\ UNCHANGED <<cfg, progKeypairFile, soExists, lamportsPerSignature, rentPerByte,
                   accounts, nextFresh, createLog, run, msg, rpcUrl, payerAccount,
                   greetedPubkey, exitCode, reported, fees, observed, account, feeCalculator,
                   lamports, airdrops, txs, payerSource, getPayerRaised, greetedSeen, debited,
                   otherOps, otherWrote, otherLamports>>

\* checkProgram, lines 205-219: the program's on-chain record.
cpProgramInfo ==
    /\ pc = "cp_programInfo"
    /\ \E rpcOk \in BOOLEAN :
          IF ~rpcOk THEN Done("checkProgram", TRUE, ErrRpc)
          ELSE LET perr == ProgramError(accounts[programId])
               IN IF perr # NoError THEN Done("checkProgram", TRUE, perr)
                  ELSE Goto("cp_derive")
    /\ UNCHANGED <<cfg, progKeypairFile, soExists, lamportsPerSignature, rentPerByte,
                   accounts, nextFresh, createLog, run, msg, rpcUrl, payerAccount, programId,
                   greetedPubkey, exitCode, reported, fees, observed, account, feeCalculator,
                   lamports, airdrops, txs, payerSource, getPayerRaised, greetedSeen, debited,
                   otherOps, otherWrote, otherLamports>>

\* checkProgram, lines 222-228: the derived address.
cpDerive ==
    /\ pc = "cp_derive"
    /\ greetedPubkey' = CreateWithSeed(payerAccount, GREETING_SEED, programId)
    /\ Goto("cp_greetedInfo")
    /\ UNCHANGED <<cfg, progKeypairFile, soExists, lamportsPerSignature, rentPerByte,
                   accounts, nextFresh, createLog, run, msg, rpcUrl, payerAccount, programId,
                   exitCode, reported, fees, observed, account, feeCalculator, lamports,
                   airdrops, txs, payerSource, getPayerRaised, greetedSeen, debited, otherOps,
                   otherWrote, otherLamports>>

\* checkProgram, lines 234-235: whether the derived address has an account.
cpGreetedInfo ==
    /\ pc = "cp_greetedInfo"
    /\ \E rpcOk \in BOOLEAN :
          IF ~rpcOk
          THEN greetedSeen' = greetedSeen /\ Done("checkProgram", TRUE, ErrRpc)
          ELSE /\ greetedSeen' = IF accounts[greetedPubkey] = NULL THEN "absent" ELSE "present"
               /\ IF MustCreate(accounts[greetedPubkey])
                  THEN Goto("cp_rent")
                  ELSE Done("checkProgram", FALSE, NoError)
    /\ UNCHANGED <<cfg, progKeypairFile, soExists, lamportsPerSignature, rentPerByte,
                   accounts, nextFresh, createLog, run, msg, rpcUrl, payerAccount, programId,
                   greetedPubkey, exitCode, reported, fees, observed, account, feeCalculator,
                   lamports, airdrops, txs, payerSource, getPayerRaised, debited, otherOps,
                   otherWrote, otherLamports>>

\* checkProgram, lines 243-248: getMinimumBalanceForRentExemption.
cpRent ==
    /\ pc = "cp_rent"
    /\ \E rpcOk \in BOOLEAN :
          IF rpcOk
          THEN lamports' = Rent(GREETING_SIZE) /\ Goto("cp_create")
          ELSE lamports' = lamports /\ Done("checkProgram", TRUE, ErrRpc)
    /\ UNCHANGED <<cfg, progKeypairFile, soExists, lamportsPerSignature, rentPerByte,
                   accounts, nextFresh, createLog, run, msg, rpcUrl, payerAccount, programId,
                   greetedPubkey, exitCode, reported, fees, observed, account, feeCalculator,
                   airdrops, txs, payerSource, getPayerRaised, greetedSeen, debited, otherOps,
                   otherWrote, otherLamports>>

\* checkProgram, lines 251-264: the creation, sent and confirmed.
cpCreate ==
    /\ pc = "cp_create"
    /\ \E net \in SendOutcomes :
          LET cp == CreateParams(lamports, GREETING_SIZE)
              r == SubmitCreate(accounts, payerAccount, greetedPubkey, cp.lamports, cp.space,
                                programId)
              landed == net \in {"ok", "confirmRejected"} /\ r.ok
              why == IF net = "sendRejected" THEN "rpc" ELSE r.why
              tx == [kind |-> "create", target |-> greetedPubkey, lamports |-> cp.lamports,
                     space |-> cp.space, owner |-> programId, data |-> <<>>,
                     ok |-> landed, why |-> why]
          IN /\ txs' = Append(txs, tx)
             /\ accounts' = IF landed THEN r.accts ELSE accounts
             /\ createLog' = IF landed THEN Append(createLog, greetedPubkey) ELSE createLog
             /\ IF net = "sendRejected"
                THEN Done("checkProgram", TRUE, ErrRpc)
                ELSE IF ~r.ok THEN Done("checkProgram", TRUE, TxError(r.why))
                ELSE Done("checkProgram", net # "ok", IF net = "ok" THEN NoError ELSE ErrRpc)
    /\ UNCHANGED <<cfg, progKeypairFile, soExists, lamportsPerSignature, rentPerByte,
                   nextFresh, run, msg, rpcUrl, payerAccount, programId, greetedPubkey,
                   exitCode, reported, fees, observed, account, feeCalculator, lamports,
                   airdrops, payerSource, getPayerRaised, greetedSeen, debited, otherOps,
                   otherWrote, otherLamports>>

\* sayHello (hello_world.ts:270-297).
sayHello ==
    /\ pc = "sayHello"
    /\ \E net \in SendOutcomes, overflow \in OverflowPolicies :
          LET data == Serialize(msg)
              r == SubmitInvoke(accounts, payerAccount, greetedPubkey, data, overflow)
              landed == net \in {"ok", "confirmRejected"} /\ r.ok
              why == IF net = "sendRejected" THEN "rpc" ELSE r.why
              tx == [kind |-> "invoke", target |-> greetedPubkey, lamports |-> 0,
                     space |-> 0, owner |-> programId, data |-> data,
                     ok |-> landed, why |-> why]
          IN /\ txs' = Append(txs, tx)
             /\ accounts' = IF landed THEN r.accts ELSE accounts
             /\ otherWrote' = IF landed THEN FALSE ELSE otherWrote
             /\ IF net = "sendRejected" THEN Done("sayHello", TRUE, ErrRpc)
                ELSE IF ~r.ok THEN Done("sayHello", TRUE, TxError(r.why))
                ELSE Done("sayHello", net # "ok", IF net = "ok" THEN NoError ELSE ErrRpc)
    /\ UNCHANGED <<cfg, progKeypairFile, soExists, lamportsPerSignature, rentPerByte,
                   nextFresh, createLog, run, msg, rpcUrl, payerAccount, programId,
                   greetedPubkey, exitCode, reported, fees, observed, account, feeCalculator,
                   lamports, airdrops, payerSource, getPayerRaised, greetedSeen, debited,
                   otherOps, otherLamports>>

\* reportGreetings (hello_world.ts:302-334).
reportGreetings ==
    /\ pc = "reportGreetings"
    /\ \E rpcOk \in BOOLEAN :
          IF ~rpcOk THEN reported' = reported /\ Done("reportGreetings", TRUE, ErrRpc)
          ELSE LET info == accounts[greetedPubkey]
                   g == IF info = NULL THEN [ok |-> FALSE, txt |-> <<>>]
                        ELSE Deserialize(info.data)
               IN /\ reported' = IF g.ok THEN <<g.txt>> ELSE reported
                  /\ Done("reportGreetings", ~g.ok,
                          IF info = NULL THEN ErrNoGreeted
                          ELSE IF g.ok THEN NoError ELSE ErrBorsh)
    /\ UNCHANGED <<cfg, progKeypairFile, soExists, lamportsPerSignature, rentPerByte,
                   accounts, nextFresh, createLog, run, msg, rpcUrl, payerAccount, programId,
                   greetedPubkey, exitCode, fees, observed, account, feeCalculator, lamports,
                   airdrops, txs, payerSource, getPayerRaised, greetedSeen, debited, otherOps,
                   otherWrote, otherLamports>>

\* The two handlers of main().then(...).
exit ==
    /\ pc \in {"resolved", "rejected"}
    /\ exitCode' = ExitStatus(pc = "rejected")
    /\ pc' = "exited"
    /\ UNCHANGED <<cfg, progKeypairFile, soExists, lamportsPerSignature, rentPerByte,
                   accounts, nextFresh, createLog, run, msg, rpcUrl, payerAccount, programId,
                   greetedPubkey, error, reported, fees, observed, account, feeCalculator,
                   lamports, steps, airdrops, txs, payerSource, getPayerRaised, greetedSeen,
                   debited, otherOps, otherWrote, otherLamports>>

\* The client is started again: module state is fresh, the network is not.
startRun ==
    /\ pc = "exited"
    /\ run < MaxRuns
    /\ run' = run + 1
    /\ pc' = "establishConnection"
    /\ msg' \in Msgs
    /\ rpcUrl' = "" /\ payerAccount' = NULL /\ programId' = NULL /\ greetedPubkey' = NULL
    /\ error' = NoError /\ exitCode' = -1 /\ reported' = <<>>
    /\ fees' = 0 /\ observed' = -1 /\ account' = NULL /\ feeCalculator' = 0 /\ lamports' = 0
    /\ steps' = <<>> /\ airdrops' = <<>> /\ txs' = <<>>
    /\ payerSource' = "" /\ getPayerRaised' = FALSE /\ greetedSeen' = "" /\ debited' = FALSE
    /\ otherWrote' = FALSE
    /\ UNCHANGED <<cfg, progKeypairFile, soExists, lamportsPerSignature, rentPerByte,
                   accounts, nextFresh, createLog, otherOps, otherLamports>>

\* Another instance of this client, started with the same configured keypair,
\* reads the payer's balance in its establishPayer (line 167) and finds it
\* short (line 168).
otherClientReadsBalance ==
    /\ Running
    /\ otherOps < MaxOtherOps
    /\ OtherClientHasPayer
    /\ otherLamports = -1
    /\ LET f == FeeEstimate(Rent(GREETING_SIZE), lamportsPerSignature)
           balance == GetBalance(accounts, CfgKey)
       IN /\ NeedsTopUp(balance, f)
          /\ otherLamports' = balance
    /\ UNCHANGED <<cfg, progKeypairFile, soExists, lamportsPerSignature, rentPerByte,
                   accounts, nextFresh, createLog, run, pc, msg, rpcUrl, payerAccount,
                   programId, greetedPubkey, error, exitCode, reported, fees, observed,
                   account, feeCalculator, lamports, steps, airdrops, txs, payerSource,
                   getPayerRaised, greetedSeen, debited, otherOps, otherWrote>>

\* That instance's requestAirdrop (lines 170-173): the faucet credits the payer
\* with the estimate minus the balance that instance read, whatever the payer
\* holds by now.
otherClientTopsUp ==
    /\ Running
    /\ otherOps < MaxOtherOps
    /\ otherLamports # -1
    /\ LET f == FeeEstimate(Rent(GREETING_SIZE), lamportsPerSignature)
       IN accounts' = Credit(accounts, CfgKey, Shortfall(f, otherLamports))
    /\ otherLamports' = -1
    /\ otherOps' = otherOps + 1
    /\ UNCHANGED <<cfg, progKeypairFile, soExists, lamportsPerSignature, rentPerByte,
                   nextFresh, createLog, run, pc, msg, rpcUrl, payerAccount, programId,
                   greetedPubkey, error, exitCode, reported, fees, observed, account,
                   feeCalculator, lamports, steps, airdrops, txs, payerSource, getPayerRaised,
                   greetedSeen, debited, otherWrote>>

\* Another instance reaches the creation in its checkProgram (lines 234-264):
\* it creates the greeted account of that payer and pays for it from the
\* payer's balance.
otherClientCreates ==
    /\ Running
    /\ otherOps < MaxOtherOps
    /\ OtherClientHasPayer /\ OtherClientHasProgram
    /\ LET gpk == CreateWithSeed(CfgKey, GREETING_SEED, ProgramKey)
           cp == CreateParams(Rent(GREETING_SIZE), GREETING_SIZE)
           r == SubmitCreate(accounts, CfgKey, gpk, cp.lamports, cp.space, ProgramKey)
       IN /\ r.ok
          /\ accounts' = r.accts
          /\ createLog' = Append(createLog, gpk)
    /\ debited' = TRUE
    /\ otherOps' = otherOps + 1
    /\ UNCHANGED <<cfg, progKeypairFile, soExists, lamportsPerSignature, rentPerByte,
                   nextFresh, run, pc, msg, rpcUrl, payerAccount, programId, greetedPubkey,
                   error, exitCode, reported, fees, observed, account, feeCalculator,
                   lamports, steps, airdrops, txs, payerSource, getPayerRaised, greetedSeen,
                   otherWrote, otherLamports>>

\* Another instance reaches its sayHello (lines 270-297, called by main with
\* 'Hello1234567'): its invoke writes the greeted account of that payer and
\* the fee is taken from the payer's balance.
otherClientSaysHello ==
    /\ Running
    /\ otherOps < MaxOtherOps
    /\ OtherClientHasPayer /\ OtherClientHasProgram
    /\ LET gpk == CreateWithSeed(CfgKey, GREETING_SEED, ProgramKey)
       IN \E overflow \in OverflowPolicies :
             LET r == SubmitInvoke(accounts, CfgKey, gpk, Serialize(Hello1234567), overflow)
             IN /\ r.ok
                /\ accounts' = r.accts
                /\ otherWrote' = (otherWrote \/ gpk = greetedPubkey)
    /\ debited' = TRUE
    /\ otherOps' = otherOps + 1
    /\ UNCHANGED <<cfg, progKeypairFile, soExists, lamportsPerSignature, rentPerByte,
                   nextFresh, createLog, run, pc, msg, rpcUrl, payerAccount, programId,
                   greetedPubkey, error, exitCode, reported, fees, observed, account,
                   feeCalculator, lamports, steps, airdrops, txs, payerSource, getPayerRaised,
                   greetedSeen, otherLamports>>

\* ---------------------------------------------------------------- specification
CfgStates ==
    {[state |-> "missing", hasUrl |-> FALSE, hasKeypairPath |-> FALSE, keypairFile |-> "missing"],
     [state |-> "unparseable", hasUrl |-> FALSE, hasKeypairPath |-> FALSE, keypairFile |-> "missing"]}
    \cup {[state |-> "ok", hasUrl |-> u, hasKeypairPath |-> FALSE, keypairFile |-> "missing"] :
            u \in BOOLEAN}
    \cup {[state |-> "ok", hasUrl |-> u, hasKeypairPath |-> TRUE, keypairFile |-> k] :
            u \in BOOLEAN, k \in {"valid", "missing", "corrupt"}}

\* What the configured identity may hold when the first run starts: nothing,
\* less than the estimate, exactly the estimate, more.  Its balance is read
\* only when the configured keypair is the payer.
StartBalances(c, estimate) ==
    IF c.state = "ok" /\ c.hasKeypairPath /\ c.keypairFile = "valid"
    THEN {0, estimate \div 2, estimate, estimate + 1}
    ELSE {0}

\* The program's artifacts on disk and its record on the network.
ProgramRecord(e) ==
    [lamports |-> 1, data |-> <<>>, owner |-> SystemProgram, executable |-> e]
ProgramSetups ==
    {[file |-> f, so |-> TRUE, record |-> NULL] : f \in {"missing", "corrupt"}}
    \cup {[file |-> "valid", so |-> s, record |-> NULL] : s \in BOOLEAN}
    \cup {[file |-> "valid", so |-> TRUE, record |-> ProgramRecord(e)] : e \in BOOLEAN}

Init ==
    /\ cfg \in CfgStates
    /\ lamportsPerSignature = MaxLamportsPerSignature
    /\ rentPerByte = MaxRentPerByte
    /\ \E p \in ProgramSetups :
       \E bal \in StartBalances(cfg, FeeEstimate(Rent(GREETING_SIZE), lamportsPerSignature)) :
          /\ progKeypairFile = p.file
          /\ soExists = p.so
          /\ accounts = [a \in Addrs |->
                           IF a = ProgramKey THEN p.record
                           ELSE IF a = CfgKey /\ bal > 0
                           THEN [lamports |-> bal, data |-> <<>>, owner |-> SystemProgram,
                                 executable |-> FALSE]
                           ELSE NULL]
    /\ nextFresh = 1
    /\ createLog = <<>>
    /\ otherOps = 0 /\ otherWrote = FALSE /\ otherLamports = -1
    /\ run = 1
    /\ pc = "establishConnection"
    /\ msg \in Msgs
    /\ rpcUrl = "" /\ payerAccount = NULL /\ programId = NULL /\ greetedPubkey = NULL
    /\ error = NoError /\ exitCode = -1 /\ reported = <<>>
    /\ fees = 0 /\ observed = -1 /\ account = NULL /\ feeCalculator = 0 /\ lamports = 0
    /\ steps = <<>> /\ airdrops = <<>> /\ txs = <<>>
    /\ payerSource = "" /\ getPayerRaised = FALSE /\ greetedSeen = "" /\ debited = FALSE

Next ==
    \/ establishConnection
    \/ ecGetVersion
    \/ establishPayer
    \/ epRent
    \/ epGetPayer
    \/ epReadKeypair
    \/ epNewAirdrop
    \/ epNewConfirm
    \/ epGetBalance
    \/ epTopUpAirdrop
    \/ epTopUpConfirm
    \/ checkProgram
    \/ cpProgramInfo
    \/ cpDerive
    \/ cpGreetedInfo
    \/ cpRent
    \/ cpCreate
    \/ sayHello
    \/ reportGreetings
    \/ exit
    \/ startRun
    \/ otherClientReadsBalance
    \/ otherClientTopsUp
    \/ otherClientCreates
    \/ otherClientSaysHello

Spec == Init /\ [][Next]_vars

\* ---------------------------------------------------------------- properties
\* What the run has done so far.
Ran(i) == Len(steps) >= i
RanOk(i) == Len(steps) >= i /\ steps[i].ok
Ended == pc \in {"rejected", "exited"}
Estimate == Rent(GREETING_SIZE) + 100 * lamportsPerSignature
CreateTxs == {i \in 1..Len(txs) : txs[i].kind = "create"}
InvokeTxs == {i \in 1..Len(txs) : txs[i].kind = "invoke"}
ConfigKeypairValid == cfg.state = "ok" /\ cfg.hasKeypairPath /\ cfg.keypairFile = "valid"
ProgKeypairReadable == progKeypairFile = "valid"
\* The bytes written are the start of the stored bytes, as far as they fit.
Fits(written, stored) ==
    LET n == IF Len(written) < Len(stored) THEN Len(written) ELSE Len(stored)
    IN SubSeq(stored, 1, n) = SubSeq(written, 1, n)
\* establishPayer has just returned to main.
PayerEstablished == pc = "checkProgram"
\* Width of a string in UTF-8: one to three bytes per unit, four per surrogate
\* pair, three for a surrogate on its own.
RECURSIVE Utf8Width(_)
Utf8Width(str) ==
    IF str = <<>> THEN 0
    ELSE IF Len(str) >= 2 /\ str[1] \in 55296..56319 /\ str[2] \in 56320..57343
    THEN 4 + Utf8Width(SubSeq(str, 3, Len(str)))
    ELSE (IF Head(str) < 128 THEN 1 ELSE IF Head(str) < 2048 THEN 2 ELSE 3)
         + Utf8Width(Tail(str))

\* C1 (as stated): whenever establishPayer returns, the payer holds at least
\* the fee estimate.
C1_Original ==
    PayerEstablished => GetBalance(accounts, payerAccount) >= Estimate
\* C1 (amended): when establishPayer returns on its first call, however the
\* identity was obtained, it has computed the fee estimate (rent minimum for
\* GREETING_SIZE + 100 signatures) and read the payer's balance, and the payer
\* holds at least the estimate provided no other holder of the configured
\* keypair has spent from it since that read (a freshly generated identity
\* always holds it); the faucet is asked to top the payer up only when the
\* balance read was short, then for exactly the estimate minus that balance,
\* and when it was short such a request has succeeded.
C1_PayerFunded ==
    /\ (PayerEstablished =>
          /\ payerAccount # NULL
          /\ payerSource \in {"loaded", "fallback", "newAccountWithLamports"}
          /\ fees = Estimate
          /\ observed >= 0
          /\ (~debited => GetBalance(accounts, payerAccount) >= Estimate)
          /\ (payerAccount # CfgKey => GetBalance(accounts, payerAccount) >= Estimate))
    /\ \A i \in 1..Len(airdrops) :
          airdrops[i].to = payerAccount /\ payerSource # "newAccountWithLamports" =>
             /\ observed < Estimate
             /\ airdrops[i].amount = Estimate - observed
    /\ (PayerEstablished /\ observed < Estimate =>
          \E i \in 1..Len(airdrops) :
             /\ airdrops[i].ok /\ airdrops[i].to = payerAccount
             /\ airdrops[i].amount = Estimate - observed)
C1_Witness ==
    /\ PayerEstablished /\ payerSource = "loaded"
    /\ observed > 0 /\ observed < Estimate
    /\ GetBalance(accounts, payerAccount) = Estimate

\* C2: getRpcUrl and getPayer never raise to their caller, whatever the state
\* of the config file and of the keypair file it names.
C2_NoRaisePastConfigResolver == ~GetRpcUrl.raised /\ ~getPayerRaised

\* C3 (as stated): with the program keypair readable and no on-chain record,
\* the run fails with the "needs to be deployed" message and submits nothing.
C3_Original ==
    Ran(3) /\ ProgKeypairReadable /\ accounts[ProgramKey] = NULL /\ error # ErrRpc =>
        Ended /\ error = ErrNeedsDeploy /\ txs = <<>>
\* C3 (amended): with the program keypair readable, a missing on-chain record
\* makes checkProgram fail with the deploy message when the compiled binary
\* exists and the build-and-deploy message when it does not, and a record that
\* is not executable makes it fail too (or the query itself is rejected); in
\* each case before the greeted address is derived and with no creation or
\* invoke transaction submitted.
C3_ProgramCheckFailsFirst ==
    Ran(3) /\ ProgKeypairReadable /\
        (accounts[ProgramKey] = NULL \/ ~accounts[ProgramKey].executable) =>
        /\ Ended /\ ~steps[3].ok /\ Len(steps) = 3
        /\ error \in {ErrRpc,
                      IF accounts[ProgramKey] # NULL THEN ErrNotExecutable
                      ELSE IF soExists THEN ErrNeedsDeploy ELSE ErrNeedsBuild}
        /\ greetedPubkey = NULL
        /\ txs = <<>>
        /\ (pc = "exited" => exitCode # 0)
C3_Witness ==
    /\ pc = "exited" /\ error = ErrNeedsBuild /\ ProgKeypairReadable
    /\ accounts[ProgramKey] = NULL /\ airdrops # <<>> /\ txs = <<>>

\* C4: when checkProgram finds the derived account absent and returns, it has
\* submitted exactly one creation (space GREETING_SIZE, funded with the rent
\* minimum for it, owned by the program); it never submits more than one; when
\* it finds the account present it submits none and returns; no derived
\* address is ever created twice.
C4_IdempotentProvisioning ==
    /\ Cardinality(CreateTxs) <= 1
    /\ \A i \in CreateTxs :
          /\ greetedSeen = "absent"
          /\ txs[i].target = CreateWithSeed(payerAccount, GREETING_SEED, ProgramKey)
          /\ txs[i].space = GREETING_SIZE
          /\ txs[i].lamports = Rent(GREETING_SIZE)
          /\ txs[i].owner = ProgramKey
    /\ (RanOk(3) /\ greetedSeen = "absent" =>
          /\ Cardinality(CreateTxs) = 1
          /\ \A i \in CreateTxs : txs[i].ok
          /\ Len(accounts[greetedPubkey].data) = GREETING_SIZE
          /\ accounts[greetedPubkey].owner = ProgramKey)
    /\ (greetedSeen = "present" => pc \notin {"cp_rent", "cp_create"})
    /\ (Ran(3) /\ greetedSeen = "present" => CreateTxs = {} /\ steps[3].ok)
    /\ \A i, j \in 1..Len(createLog) : createLog[i] = createLog[j] => i = j
C4_Witness ==
    /\ run = 2 /\ pc = "sayHello" /\ greetedSeen = "present" /\ payerAccount = CfgKey
    /\ CreateTxs = {} /\ createLog = <<greetedPubkey>> /\ ~debited

\* C5: after a confirmed sayHello(msg) whose encoding is GREETING_SIZE bytes,
\* with no other writer in between, reportGreetings (its query answered)
\* decodes the account to exactly msg.
C5_ReadYourWrite ==
    Ran(5) /\ Len(Serialize(msg)) = GREETING_SIZE /\ ~otherWrote /\ error # ErrRpc =>
        steps[5].ok /\ reported = <<msg>>

\* C6 (as stated): every 12-character string is encoded by sayHello to
\* GREETING_SIZE bytes.
C6_Original ==
    \A i \in InvokeTxs : Len(msg) = Len(sampleTxt) => Len(txs[i].data) = GREETING_SIZE
\* C6 (amended): every string whose UTF-8 form is 12 bytes long (any 12 ASCII
\* characters among them) is encoded by sayHello to GREETING_SIZE bytes,
\* whatever its content.
C6_FixedLengthForTwelveBytes ==
    \A i \in InvokeTxs :
        Utf8Width(msg) = Utf8Width(sampleTxt) => Len(txs[i].data) = GREETING_SIZE
C6_Witness ==
    /\ InvokeTxs # {} /\ msg = MsgBom /\ Len(msg) < Len(sampleTxt)
    /\ \A i \in InvokeTxs : Len(txs[i].data) = GREETING_SIZE

\* C7 (as stated, for an invoke that was confirmed, the only case in which
\* the payload reaches decode time): a payload whose encoded length differs
\* from the account's size makes reportGreetings raise at decode, and the run
\* exits nonzero.
C7_Original ==
    pc = "exited" /\ RanOk(4) /\ Len(Serialize(msg)) # GREETING_SIZE /\ error # ErrRpc =>
        ~steps[5].ok /\ error = ErrBorsh /\ exitCode # 0
\* C7 (amended): when the payload's encoded length differs from the account's
\* size, the invoke is confirmed and no other instance writes the account
\* before it is read, reportGreetings raises at decode time, nothing is
\* reported and the run exits nonzero; when sayHello raises instead (an RPC
\* rejection, or, for a longer payload only, the program refusing it) the run
\* ends there, nonzero, with nothing reported.
C7_MismatchIsFatal ==
    /\ (pc = "exited" /\ RanOk(4) /\ Len(Serialize(msg)) # GREETING_SIZE
          /\ ~otherWrote /\ error # ErrRpc =>
           /\ Len(steps) = 5 /\ ~steps[5].ok /\ error = ErrBorsh
           /\ reported = <<>> /\ exitCode # 0)
    /\ (pc = "exited" /\ Ran(4) /\ ~steps[4].ok /\ Len(Serialize(msg)) # GREETING_SIZE =>
           /\ Len(steps) = 4 /\ reported = <<>> /\ exitCode # 0
           /\ error \in (IF Len(Serialize(msg)) < GREETING_SIZE THEN {ErrRpc}
                         ELSE {ErrRpc, ErrProgram}))
C7_Witness ==
    /\ pc = "exited" /\ msg = MsgShort /\ Len(steps) = 5 /\ error = ErrBorsh
    /\ ~otherWrote /\ otherOps > 0 /\ payerAccount = CfgKey /\ exitCode # 0

\* C8: the steps run in the fixed order, each after the previous one returned;
\* the first that raises ends the run, what was executed before stays on the
\* network (the created account exists, and the invoke's bytes are in it as
\* far as they fit unless another instance has written it since), and the
\* exit status is 0 exactly when all five returned.
C8_LinearRun ==
    /\ Len(steps) <= Len(StepOrder)
    /\ \A i \in 1..Len(steps) :
          /\ steps[i].name = StepOrder[i]
          /\ (i < Len(steps) => steps[i].ok)
    /\ (Len(steps) > 0 /\ ~steps[Len(steps)].ok => Ended)
    /\ (Ended => \A i \in 1..Len(txs) :
                    txs[i].ok => /\ accounts[txs[i].target] # NULL
                                 /\ (txs[i].kind = "invoke" /\ ~otherWrote =>
                                        Fits(txs[i].data, accounts[txs[i].target].data)))
    /\ (pc = "exited" =>
          /\ (exitCode = 0 <=> (Len(steps) = Len(StepOrder) /\ steps[Len(steps)].ok))
          /\ exitCode \in {0, 255})
C8_Witness ==
    /\ pc = "exited" /\ exitCode = 255 /\ Len(steps) = 5 /\ error = ErrBorsh
    /\ \E i \in InvokeTxs :
          /\ txs[i].ok
          /\ SubSeq(accounts[greetedPubkey].data, 1, Len(txs[i].data)) = txs[i].data
          /\ Len(txs[i].data) < GREETING_SIZE

\* C9: with the config file present, its keypair file valid and that identity
\* seen to hold at least the estimate, the run never calls the faucet.
C9_NoFaucetWhenFunded ==
    ConfigKeypairValid /\ (observed = -1 \/ observed >= Estimate) => airdrops = <<>>
C9_Witness ==
    /\ pc = "exited" /\ exitCode = 0 /\ payerSource = "loaded"
    /\ observed = Estimate /\ airdrops = <<>>

\* C10: no balance goes below zero, and once establishPayer has returned no
\* transaction of the run fails for lack of funds.
C10_EstimateCoversRun ==
    /\ \A a \in Addrs : GetBalance(accounts, a) >= 0
    /\ (RanOk(2) => /\ error # ErrFunds
                    /\ \A i \in 1..Len(txs) : txs[i].why # "funds")
C10_Witness ==
    /\ pc = "exited" /\ exitCode = 0 /\ observed <= Estimate /\ ~debited
    /\ Len(txs) = 2
    /\ GetBalance(accounts, payerAccount)
         = Estimate - Rent(GREETING_SIZE) - 2 * lamportsPerSignature
====
